---------------------------- MODULE Spec2Model ----------------------------
(***************************************************************************)
(* GCS MCP server (src/src/gcs_mcp_server/__main__.py): the authentication *)
(* wrapper, the path sandbox and the eight storage tools, over a model of  *)
(* the Google Cloud Storage bucket/object API they call.                   *)
(*                                                                         *)
(* Python strings are sequences of one-character strings, so startswith,   *)
(* endswith, removeprefix, split and os.path.basename are computed as      *)
(* Python computes them.  Python's None is the record None.                *)
(***************************************************************************)
EXTENDS Integers, Sequences, FiniteSets, TLC

VARIABLES
    AUTH_GATEWAY_URL,  \* TRUE iff the environment variable is set (module constant)
    storage_client,    \* the object store: [bucket name -> [object key -> bytes]]
    pc,                \* position of the request being served: "idle", "call", "done"
    request,           \* what wrapper() received and resolved for that request
    last,              \* what the tool function did: arguments, store calls, result
    uploaded,          \* history: the uploads whose object is still as uploaded
    running            \* the tool functions in progress on concurrent servers

vars == <<AUTH_GATEWAY_URL, storage_client, pc, request, last, uploaded, running>>

---------------------------------------------------------------------------
(* Python values *)

None == [type |-> "None"]

EmptyMap == [k \in {} |-> None]

\* str.startswith
StartsWith(s, p) == Len(s) >= Len(p) /\ SubSeq(s, 1, Len(p)) = p

\* str.endswith
EndsWith(s, p) == Len(s) >= Len(p) /\ SubSeq(s, Len(s) - Len(p) + 1, Len(s)) = p

\* str.lstrip(p) in place of str.removeprefix(p): strips every leading character
\* of s that occurs in p
RECURSIVE RemovePrefix_lstrip(_, _)
RemovePrefix_lstrip(s, p) ==
    IF s # << >> /\ \E i \in 1..Len(p) : p[i] = s[1]
    THEN RemovePrefix_lstrip(SubSeq(s, 2, Len(s)), p)
    ELSE s

\* str.removeprefix: the prefix is removed only when the string starts with it
RemovePrefix(s, p) == IF StartsWith(s, p) THEN SubSeq(s, Len(p) + 1, Len(s)) ELSE s

\* index of the first occurrence of character c in s at or after position i, 0 if none
RECURSIVE Find(_, _, _)
Find(s, c, i) ==
    IF i > Len(s) THEN 0
    ELSE IF s[i] = c THEN i
    ELSE Find(s, c, i + 1)

\* str.split(c) for a one-character separator: the list of pieces
RECURSIVE Split(_, _)
Split(s, c) ==
    LET i == Find(s, c, 1)
    IN  IF i = 0 THEN <<s>>
        ELSE <<SubSeq(s, 1, i - 1)>> \o Split(SubSeq(s, i + 1, Len(s)), c)

\* index of the last occurrence of character c in s, 0 if none (str.rfind + 1)
RECURSIVE RFind(_, _, _)
RFind(s, c, i) ==
    IF i = 0 THEN 0
    ELSE IF s[i] = c THEN i
    ELSE RFind(s, c, i - 1)

\* os.path.basename (posixpath): what follows the last "/"
Basename(p) == SubSeq(p, RFind(p, "/", Len(p)) + 1, Len(p))

Slash == <<"/">>

---------------------------------------------------------------------------
(* base64 *)

B64Alphabet ==
    << "A","B","C","D","E","F","G","H","I","J","K","L","M","N","O","P",
       "Q","R","S","T","U","V","W","X","Y","Z","a","b","c","d","e","f",
       "g","h","i","j","k","l","m","n","o","p","q","r","s","t","u","v",
       "w","x","y","z","0","1","2","3","4","5","6","7","8","9","+","/" >>

B64Index(c) == (CHOOSE i \in 1..Len(B64Alphabet) : B64Alphabet[i] = c) - 1

B64Char(n) == B64Alphabet[n + 1]

\* the value standing for a raised binascii.Error (no byte is negative)
B64Error == << -1 >>

\* a group decoded to three bytes whatever its padding
B64DecodeGroup_ignoring_padding(g) ==
    LET v(i) == IF g[i] = "=" THEN 0 ELSE B64Index(g[i])
        n == v(1) * 262144 + v(2) * 4096 + v(3) * 64 + v(4)
    IN  << n \div 65536, (n \div 256) % 256, n % 256 >>

\* one group of four characters -> three, two ("=") or one ("==") bytes
B64DecodeGroup(g) ==
    LET pad == IF g[3] = "=" THEN 2 ELSE IF g[4] = "=" THEN 1 ELSE 0
        v(i) == IF g[i] = "=" THEN 0 ELSE B64Index(g[i])
        n == v(1) * 262144 + v(2) * 4096 + v(3) * 64 + v(4)
        b == << n \div 65536, (n \div 256) % 256, n % 256 >>
    IN  SubSeq(b, 1, 3 - pad)

\* base64.b64decode on text of the base64 alphabet: B64Error for incorrect padding
RECURSIVE b64decode(_)
b64decode(t) ==
    IF Len(t) = 0 THEN << >>
    ELSE IF Len(t) < 4 THEN B64Error
    ELSE LET rest == b64decode(SubSeq(t, 5, Len(t)))
         IN  IF rest = B64Error THEN B64Error
             ELSE B64DecodeGroup(SubSeq(t, 1, 4)) \o rest

\* base64.b64encode(...).decode('utf-8')
RECURSIVE b64encode(_)
b64encode(b) ==
    IF Len(b) = 0 THEN << >>
    ELSE LET k == IF Len(b) >= 3 THEN 3 ELSE Len(b)
             at(i) == IF i <= Len(b) THEN b[i] ELSE 0
             n == at(1) * 65536 + at(2) * 256 + at(3)
             c == << B64Char(n \div 262144), B64Char((n \div 4096) % 64),
                     B64Char((n \div 64) % 64), B64Char(n % 64) >>
             g == IF k = 3 THEN c
                  ELSE IF k = 2 THEN SubSeq(c, 1, 3) \o <<"=">>
                  ELSE SubSeq(c, 1, 2) \o <<"=", "=">>
         IN  g \o b64encode(SubSeq(b, k + 1, Len(b)))


---------------------------------------------------------------------------
(* The values requests are drawn from *)

\* "user-123-admin" and "user-456-basic", the user ids of the gateway responses
UserAdmin == <<"u","s","e","r","-","1","2","3","-","a","d","m","i","n">>
UserBasic == <<"u","s","e","r","-","4","5","6","-","b","a","s","i","c">>

AuthInfo(user_id, role) == [user_id |-> user_id, role |-> role]

\* the identities a caller passes as auth_info (tests/integration_test.py does so)
SuppliedAuthInfos ==
    { AuthInfo(UserAdmin, "agent-admin"), AuthInfo(UserBasic, "agent") }

TEST_TOKEN_ADMIN == <<"T","E","S","T","_","T","O","K","E","N","_","A","D","M","I","N">>
TEST_TOKEN_USER == <<"T","E","S","T","_","T","O","K","E","N","_","U","S","E","R">>

Bearer == <<"B","e","a","r","e","r"," ">>

\* Authorization header values; a request may also carry no such header
AuthHeaders ==
    { Bearer \o TEST_TOKEN_ADMIN,
      Bearer \o TEST_TOKEN_USER,
      Bearer \o <<"x">>,
      Bearer,
      <<"B","a","s","i","c"," ","x">>,
      << >> }

\* req.headers of the requests: a dict with or without an Authorization entry
HeaderDicts ==
    { EmptyMap } \cup { [n \in {"Authorization"} |-> h] : h \in AuthHeaders }

BucketNames == {"b1", "b2"}

\* caller paths: "", "f", "user-456-basic/" and "user-456-basic/f".  The one
\* directory of the model is named like a user id, so that a caller path can
\* itself begin with a sandbox prefix: it lies inside the sandbox of the
\* administrator, inside the sandbox of user-456-basic under that user's own
\* name, and, for a request without identity, it is that user's sandbox.
Dir == UserBasic \o <<"/">>

Paths == { << >>, <<"f">>, Dir, Dir \o <<"f">> }

\* bytes b"X" and b"YZ"
ByteStrings == { <<88>>, <<89, 90>> }

\* the content arguments: base64 text of the byte strings, and "WA" (bad padding)
Contents == { b64encode(b) : b \in ByteStrings } \cup { <<"W", "A">> }

\* the most objects the store holds at a time
MaxObjects == 2


---------------------------------------------------------------------------
(* Authentication: authenticated_tool.wrapper *)

\* the gateway response the wrapper builds for a token
MockResponse(token) ==
    IF token = TEST_TOKEN_ADMIN
    THEN [status_code |-> 200,
          json |-> [user_id |-> UserAdmin, role |-> "agent-admin"]]
    ELSE IF token = TEST_TOKEN_USER
    THEN [status_code |-> 200,
          json |-> [user_id |-> UserBasic, role |-> "agent"]]
    ELSE [status_code |-> 401, json |-> [error |-> "Invalid token"]]

\* dict.get('error', 'Unknown error') on a response body
ErrorOf(json) == IF "error" \in DOMAIN json THEN json.error ELSE "Unknown error"

Resolved(auth_info, gateway_called) ==
    [returned |-> None, auth_info |-> auth_info, gateway_called |-> gateway_called]

Rejected(result, gateway_called) ==
    [returned |-> result, auth_info |-> None, gateway_called |-> gateway_called]

\* the exchange without the test of the status code: a response without
\* identity leaves the request anonymous
Authenticate_ignoring_status(token, request_error) ==
    IF request_error
    THEN Rejected([kind |-> "gateway_error"], TRUE)
    ELSE LET response == MockResponse(token)
         IN  IF "user_id" \in DOMAIN response.json
             THEN Resolved(AuthInfo(response.json.user_id, response.json.role), TRUE)
             ELSE Resolved(None, TRUE)

\* lines 76-93: the try block around the gateway exchange.  request_error is
\* whether httpx raises RequestError inside it.
Authenticate(token, request_error) ==
    IF request_error
    THEN Rejected([kind |-> "gateway_error"], TRUE)
    ELSE LET response == MockResponse(token)
         IN  IF response.status_code = 200
             THEN Resolved(AuthInfo(response.json.user_id, response.json.role), TRUE)
             ELSE Rejected([kind |-> "authentication_failed",
                            reason |-> ErrorOf(response.json)], TRUE)

\* wrapper without the test of AUTH_GATEWAY_URL: a header is always authenticated
wrapper_ignoring_gateway_url(gateway_url, args, kwargs_auth_info, request_error) ==
    IF kwargs_auth_info # None
    THEN Resolved(kwargs_auth_info, FALSE)
    ELSE IF args = << >>
    THEN Rejected([kind |-> "no_request"], FALSE)
    ELSE LET headers == args[1].headers
             has_header == "Authorization" \in DOMAIN headers
             auth_header == IF has_header THEN headers["Authorization"] ELSE << >>
         IN  IF has_header /\ auth_header # << >>
             THEN IF StartsWith(auth_header, Bearer)
                  THEN Authenticate(Split(auth_header, " ")[2], request_error)
                  ELSE Rejected([kind |-> "invalid_header"], FALSE)
             ELSE Resolved(None, FALSE)

\* wrapper that reads the header before the auth_info the caller passed
wrapper_header_first(gateway_url, args, kwargs_auth_info, request_error) ==
    LET has_header == args # << >> /\ "Authorization" \in DOMAIN args[1].headers
        auth_header == IF has_header THEN args[1].headers["Authorization"] ELSE << >>
    IN  IF gateway_url /\ has_header /\ auth_header # << >>
        THEN IF StartsWith(auth_header, Bearer)
             THEN Authenticate(Split(auth_header, " ")[2], request_error)
             ELSE Rejected([kind |-> "invalid_header"], FALSE)
        ELSE IF kwargs_auth_info # None THEN Resolved(kwargs_auth_info, FALSE)
        ELSE IF args = << >> THEN Rejected([kind |-> "no_request"], FALSE)
        ELSE Resolved(None, FALSE)

\* wrapper(*args, **kwargs) up to the call of the tool function: either the
\* string it returns itself, or the auth_info it calls the tool function with.
\* gateway_url is AUTH_GATEWAY_URL, args the positional arguments (the request
\* object, if any), kwargs_auth_info is kwargs.get("auth_info").
wrapper(gateway_url, args, kwargs_auth_info, request_error) ==
    IF kwargs_auth_info # None
    THEN Resolved(kwargs_auth_info, FALSE)
    ELSE IF args = << >>
    THEN Rejected([kind |-> "no_request"], FALSE)
    ELSE LET headers == args[1].headers
             has_header == "Authorization" \in DOMAIN headers
             auth_header == IF has_header THEN headers["Authorization"] ELSE << >>
         IN  IF gateway_url /\ has_header /\ auth_header # << >>
             THEN IF StartsWith(auth_header, Bearer)
                  THEN Authenticate(Split(auth_header, " ")[2], request_error)
                  ELSE Rejected([kind |-> "invalid_header"], FALSE)
             ELSE Resolved(None, FALSE)


---------------------------------------------------------------------------
(* The Google Cloud Storage client the tools call (storage_client) *)

\* characters of object names in code-point order, for the order of listings
CodePoints ==
    << "-", "/", "0", "1", "2", "3", "4", "5", "6", "7", "8", "9",
       "a", "b", "c", "d", "e", "f", "g", "h", "i", "j", "k", "l", "m",
       "n", "o", "p", "q", "r", "s", "t", "u", "v", "w", "x", "y", "z" >>

Ord(c) == CHOOSE i \in 1..Len(CodePoints) : CodePoints[i] = c

\* a < b for object names, as the store orders them
RECURSIVE NameLess(_, _)
NameLess(a, b) ==
    IF Len(b) = 0 THEN FALSE
    ELSE IF Len(a) = 0 THEN TRUE
    ELSE IF a[1] # b[1] THEN Ord(a[1]) < Ord(b[1])
    ELSE NameLess(Tail(a), Tail(b))

\* a set of object names as the list a listing yields
RECURSIVE Sorted(_)
Sorted(names) ==
    IF names = {} THEN << >>
    ELSE LET first == CHOOSE n \in names : \A m \in names \ {n} : NameLess(n, m)
         IN  <<first>> \o Sorted(names \ {first})

HasBucket(store, bucket_name) == bucket_name \in DOMAIN store

\* blob.exists()
Exists(store, bucket_name, name) == name \in DOMAIN store[bucket_name]

\* blob.upload_from_string / the write of copy_blob: creates or overwrites
PutObject(store, bucket_name, name, data) ==
    [store EXCEPT ![bucket_name] =
        [n \in DOMAIN @ \cup {name} |-> IF n = name THEN data ELSE @[n]]]

\* blob.delete()
DeleteObject(store, bucket_name, name) ==
    [store EXCEPT ![bucket_name] = [n \in DOMAIN @ \ {name} |-> @[n]]]

\* bucket.list_blobs(prefix=prefix): every object whose name starts with prefix
Matching(store, bucket_name, prefix) ==
    { n \in DOMAIN store[bucket_name] : StartsWith(n, prefix) }

\* bucket.list_blobs(prefix=prefix, delimiter="/"): the objects with no "/" after
\* the prefix are the blobs; the others contribute their name up to and including
\* the first "/" after the prefix to .prefixes
ListBlobs(store, bucket_name, prefix) ==
    LET m == Matching(store, bucket_name, prefix)
        cut(n) == Find(n, "/", Len(prefix) + 1)
    IN  [blobs |-> { n \in m : cut(n) = 0 },
         prefixes |-> { SubSeq(n, 1, cut(n)) : n \in { k \in m : cut(k) # 0 } }]

\* storage_client.create_bucket
CreateBucket(store, bucket_name) ==
    [b \in DOMAIN store \cup {bucket_name} |->
        IF b = bucket_name THEN EmptyMap ELSE store[b]]

\* bucket.delete
RemoveBucket(store, bucket_name) ==
    [b \in DOMAIN store \ {bucket_name} |-> store[b]]

\* bucket.get_iam_policy(...).bindings of a bucket: the bindings GCS gives a
\* new bucket, and one without members
PolicyBindings ==
    << [role |-> "roles/storage.legacyBucketOwner",
        members |-> <<"projectEditor", "projectOwner">>],
       [role |-> "roles/storage.legacyBucketReader",
        members |-> <<"projectViewer">>],
       [role |-> "roles/storage.objectViewer", members |-> << >>] >>

NumObjects(store) ==
    Cardinality({ <<b, n>> \in BucketNames \X UNION { DOMAIN store[b] : b \in DOMAIN store } :
                    b \in DOMAIN store /\ n \in DOMAIN store[b] })

\* one call of the storage client, as the tools make it
Call(op, bucket_name, name) == [op |-> op, bucket |-> bucket_name, name |-> name]

\* what a tool function did: the store it leaves, the string it returns (or the
\* exception it raises) and the storage calls it made, in order
Outcome(store, result, calls) == [store |-> store, result |-> result, calls |-> calls]

Result(kind) == [kind |-> kind]


---------------------------------------------------------------------------
(* The tool functions.  fault is the number of the storage call, counted    *)
(* from 1 in the order the function makes them, that fails with an          *)
(* exception other than NotFound and Conflict (0: none fails).              *)

\* the path as the caller gave it, the sandbox prefix forgotten
final_path_unprefixed(auth_info, path) == path

\* f"{auth_info.user_id}/{path}" if auth_info else path
final_path(auth_info, path) ==
    IF auth_info # None THEN auth_info.user_id \o Slash \o path ELSE path

\* the user id without the "/" that follows it in the storage paths
strip_prefix_without_slash(auth_info) ==
    IF auth_info # None THEN auth_info.user_id ELSE << >>

\* the prefix list_gcs_objects strips from the names it returns
strip_prefix(auth_info) ==
    IF auth_info # None THEN auth_info.user_id \o Slash ELSE << >>

\* a role check that only asks for an identity
NotAdmin_identity_only(auth_info) == auth_info = None

\* a role check that lets the role "agent" pass as well
NotAdmin_any_agent(auth_info) ==
    auth_info = None \/ auth_info.role \notin { "agent", "agent-admin" }

\* the role check of create_bucket, delete_bucket and get_bucket_permissions
NotAdmin(auth_info) == auth_info = None \/ auth_info.role # "agent-admin"

PermissionDenied == Result("permission_denied")

upload_file(store, auth_info, bucket_name, path, content, fault) ==
    LET name == final_path(auth_info, path)
        c1 == << Call("get_bucket", bucket_name, << >>) >>
        c2 == c1 \o << Call("upload_from_string", bucket_name, name) >>
        decoded_content == b64decode(content)
    IN  IF fault = 1 THEN Outcome(store, Result("error"), c1)
        ELSE IF ~HasBucket(store, bucket_name)
        THEN Outcome(store, [kind |-> "bucket_not_found", bucket |-> bucket_name], c1)
        ELSE IF decoded_content = B64Error THEN Outcome(store, Result("error"), c1)
        ELSE IF fault = 2 \/ name = << >> THEN Outcome(store, Result("error"), c2)
        ELSE Outcome(PutObject(store, bucket_name, name, decoded_content),
                     [kind |-> "uploaded", path |-> path, bucket |-> bucket_name], c2)

create_bucket(store, auth_info, bucket_name, fault) ==
    LET c1 == << Call("create_bucket", bucket_name, << >>) >>
    IN  IF NotAdmin(auth_info) THEN Outcome(store, PermissionDenied, << >>)
        ELSE IF fault = 1
        THEN Outcome(store, [kind |-> "create_failed", bucket |-> bucket_name], c1)
        ELSE IF HasBucket(store, bucket_name)
        THEN Outcome(store, [kind |-> "already_exists", bucket |-> bucket_name], c1)
        ELSE Outcome(CreateBucket(store, bucket_name),
                     [kind |-> "created", bucket |-> bucket_name], c1)

Raise(exc) == [kind |-> "raise", exc |-> exc]

read_gcs_file(store, auth_info, bucket_name, path, fault) ==
    LET name == final_path(auth_info, path)
        c1 == << Call("get_bucket", bucket_name, << >>) >>
        c2 == c1 \o << Call("exists", bucket_name, name) >>
        c3 == c2 \o << Call("download_as_bytes", bucket_name, name) >>
    IN  IF fault = 1 THEN Outcome(store, Raise("Exception"), c1)
        ELSE IF ~HasBucket(store, bucket_name) THEN Outcome(store, Raise("NotFound"), c1)
        ELSE IF fault = 2 \/ name = << >> THEN Outcome(store, Raise("Exception"), c2)
        ELSE IF ~Exists(store, bucket_name, name)
        THEN Outcome(store, Raise("FileNotFoundError"), c2)
        ELSE IF fault = 3 THEN Outcome(store, Raise("Exception"), c3)
        ELSE Outcome(store,
                     [kind |-> "content", b64 |-> b64encode(store[bucket_name][name])],
                     c3)

\* an empty list in place of the error object
error_json_empty_array == [kind |-> "json_array", items |-> {}]

\* json.dumps({"error": str(e)})
error_json == [kind |-> "json_object", keys |-> {"error"}]

list_gcs_objects(store, auth_info, bucket_name, path, fault) ==
    LET name == final_path(auth_info, path)
        prefix == IF name # << >> /\ ~EndsWith(name, Slash) THEN name \o Slash ELSE name
        c1 == << Call("get_bucket", bucket_name, << >>) >>
        c2 == c1 \o << Call("list_blobs_delimiter", bucket_name, prefix) >>
        blobs == ListBlobs(store, bucket_name, prefix)
        strip == strip_prefix(auth_info)
        items == { RemovePrefix(n, strip) : n \in { b \in blobs.blobs : b # prefix } }
                 \cup { RemovePrefix(q, strip) : q \in blobs.prefixes }
    IN  IF fault = 1 \/ ~HasBucket(store, bucket_name)
        THEN Outcome(store, error_json, c1)
        ELSE IF fault = 2 THEN Outcome(store, Raise("Exception"), c2)
        ELSE Outcome(store, [kind |-> "json_array", items |-> items], c2)

\* a loop that stops after the first object
DeleteEach_first_only(store, bucket_name, names, calls, fault) ==
    IF names = << >> THEN [store |-> store, calls |-> calls, raised |-> FALSE]
    ELSE [store |-> DeleteObject(store, bucket_name, Head(names)),
          calls |-> calls \o << Call("delete", bucket_name, Head(names)) >>,
          raised |-> FALSE]

\* for blob in blobs_to_delete: blob.delete()
RECURSIVE DeleteEach(_, _, _, _, _)
DeleteEach(store, bucket_name, names, calls, fault) ==
    IF names = << >> THEN [store |-> store, calls |-> calls, raised |-> FALSE]
    ELSE LET c == calls \o << Call("delete", bucket_name, Head(names)) >>
         IN  IF fault = Len(c) THEN [store |-> store, calls |-> c, raised |-> TRUE]
             ELSE DeleteEach(DeleteObject(store, bucket_name, Head(names)),
                             bucket_name, Tail(names), c, fault)

delete_gcs_object(store, auth_info, bucket_name, path, fault) ==
    LET name == final_path(auth_info, path)
        c1 == << Call("get_bucket", bucket_name, << >>) >>
        cl == c1 \o << Call("list_blobs", bucket_name, name) >>
        ce == c1 \o << Call("exists", bucket_name, name) >>
        cd == ce \o << Call("delete", bucket_name, name) >>
        not_found == [kind |-> "bucket_not_found", bucket |-> bucket_name]
    IN  IF fault = 1 THEN Outcome(store, Result("error"), c1)
        ELSE IF ~HasBucket(store, bucket_name) THEN Outcome(store, not_found, c1)
        ELSE IF EndsWith(name, Slash)
        THEN IF fault = 2 THEN Outcome(store, Result("error"), cl)
             ELSE LET blobs_to_delete == Sorted(Matching(store, bucket_name, name))
                      d == DeleteEach(store, bucket_name, blobs_to_delete, cl, fault)
                  IN  IF blobs_to_delete = << >>
                      THEN Outcome(store, [kind |-> "directory_empty", path |-> path], cl)
                      ELSE IF d.raised THEN Outcome(d.store, Result("error"), d.calls)
                      ELSE Outcome(d.store,
                                   [kind |-> "directory_deleted", path |-> path], d.calls)
        ELSE IF fault = 2 \/ name = << >> THEN Outcome(store, Result("error"), ce)
        ELSE IF ~Exists(store, bucket_name, name)
        THEN Outcome(store, [kind |-> "file_not_found", path |-> path,
                             bucket |-> bucket_name], ce)
        ELSE IF fault = 3 THEN Outcome(store, Result("error"), cd)
        ELSE Outcome(DeleteObject(store, bucket_name, name),
                     [kind |-> "file_deleted", path |-> path], cd)


\* the destination path as the caller gave it, the base name never appended
final_dest_path_as_given(auth_info, source_path, dest_path) ==
    final_path(auth_info, dest_path)

\* the final destination path of move_gcs_object: the source's base name is
\* appended when the caller's dest_path ends with "/"
final_dest_path(auth_info, source_path, dest_path) ==
    IF EndsWith(dest_path, Slash)
    THEN final_path(auth_info, dest_path) \o Basename(source_path)
    ELSE final_path(auth_info, dest_path)

\* a move that undoes its copy when the delete of the source fails
move_gcs_object_rollback(store, auth_info, source_bucket_name, source_path, dest_bucket_name, dest_path, fault) ==
    LET source == final_path(auth_info, source_path)
        dest == final_dest_path(auth_info, source_path, dest_path)
        c1 == << Call("get_bucket", source_bucket_name, << >>) >>
        c2 == c1 \o << Call("exists", source_bucket_name, source) >>
        c3 == c2 \o << Call("get_bucket", dest_bucket_name, << >>) >>
        c4 == c3 \o << [op |-> "copy_blob", bucket |-> source_bucket_name,
                        name |-> source, dest_bucket |-> dest_bucket_name,
                        dest_name |-> dest] >>
        c5 == c4 \o << Call("delete", source_bucket_name, source) >>
        copied == PutObject(store, dest_bucket_name, dest,
                            store[source_bucket_name][source])
    IN  IF fault = 1 THEN Outcome(store, Result("error"), c1)
        ELSE IF ~HasBucket(store, source_bucket_name)
        THEN Outcome(store, Result("buckets_not_found"), c1)
        ELSE IF fault = 2 \/ source = << >> THEN Outcome(store, Result("error"), c2)
        ELSE IF ~Exists(store, source_bucket_name, source)
        THEN Outcome(store, [kind |-> "source_not_found", path |-> source_path], c2)
        ELSE IF fault = 3 THEN Outcome(store, Result("error"), c3)
        ELSE IF ~HasBucket(store, dest_bucket_name)
        THEN Outcome(store, Result("buckets_not_found"), c3)
        ELSE IF fault = 4 \/ dest = << >> THEN Outcome(store, Result("error"), c4)
        ELSE IF fault = 5 THEN Outcome(store, Result("error"), c5)
        ELSE Outcome(DeleteObject(copied, source_bucket_name, source),
                     [kind |-> "moved", source_path |-> source_path,
                      dest_path |-> dest_path], c5)

move_gcs_object(store, auth_info, source_bucket_name, source_path, dest_bucket_name, dest_path, fault) ==
    LET source == final_path(auth_info, source_path)
        dest == final_dest_path(auth_info, source_path, dest_path)
        c1 == << Call("get_bucket", source_bucket_name, << >>) >>
        c2 == c1 \o << Call("exists", source_bucket_name, source) >>
        c3 == c2 \o << Call("get_bucket", dest_bucket_name, << >>) >>
        c4 == c3 \o << [op |-> "copy_blob", bucket |-> source_bucket_name,
                        name |-> source, dest_bucket |-> dest_bucket_name,
                        dest_name |-> dest] >>
        c5 == c4 \o << Call("delete", source_bucket_name, source) >>
        copied == PutObject(store, dest_bucket_name, dest,
                            store[source_bucket_name][source])
    IN  IF fault = 1 THEN Outcome(store, Result("error"), c1)
        ELSE IF ~HasBucket(store, source_bucket_name)
        THEN Outcome(store, Result("buckets_not_found"), c1)
        ELSE IF fault = 2 \/ source = << >> THEN Outcome(store, Result("error"), c2)
        ELSE IF ~Exists(store, source_bucket_name, source)
        THEN Outcome(store, [kind |-> "source_not_found", path |-> source_path], c2)
        ELSE IF fault = 3 THEN Outcome(store, Result("error"), c3)
        ELSE IF ~HasBucket(store, dest_bucket_name)
        THEN Outcome(store, Result("buckets_not_found"), c3)
        ELSE IF fault = 4 \/ dest = << >> THEN Outcome(store, Result("error"), c4)
        ELSE IF fault = 5 THEN Outcome(copied, Result("error"), c5)
        ELSE Outcome(DeleteObject(copied, source_bucket_name, source),
                     [kind |-> "moved", source_path |-> source_path,
                      dest_path |-> dest_path], c5)

delete_bucket(store, auth_info, bucket_name, force, fault) ==
    LET c1 == << Call("get_bucket", bucket_name, << >>) >>
        c2 == c1 \o << Call(IF force THEN "bucket_delete_force" ELSE "bucket_delete",
                            bucket_name, << >>) >>
    IN  IF NotAdmin(auth_info) THEN Outcome(store, PermissionDenied, << >>)
        ELSE IF fault = 1 THEN Outcome(store, Result("error"), c1)
        ELSE IF ~HasBucket(store, bucket_name)
        THEN Outcome(store, [kind |-> "bucket_not_found", bucket |-> bucket_name], c1)
        ELSE IF fault = 2 \/ (~force /\ DOMAIN store[bucket_name] # {})
        THEN Outcome(store, Result("error"), c2)
        ELSE Outcome(RemoveBucket(store, bucket_name),
                     [kind |-> "bucket_deleted", bucket |-> bucket_name], c2)

\* the {role, member} pairs of the bindings that have a role and members
RECURSIVE Permissions(_)
Permissions(bindings) ==
    IF bindings = << >> THEN << >>
    ELSE LET binding == Head(bindings)
         IN  [i \in 1..Len(binding.members) |->
                 [role |-> binding.role, member |-> binding.members[i]]]
             \o Permissions(Tail(bindings))

get_bucket_permissions(store, auth_info, bucket_name, fault) ==
    LET c1 == << Call("get_bucket", bucket_name, << >>) >>
        c2 == c1 \o << Call("get_iam_policy", bucket_name, << >>) >>
    IN  IF NotAdmin(auth_info) THEN Outcome(store, PermissionDenied, << >>)
        ELSE IF fault = 1 THEN Outcome(store, Result("permissions_error"), c1)
        ELSE IF ~HasBucket(store, bucket_name)
        THEN Outcome(store, [kind |-> "bucket_not_found", bucket |-> bucket_name], c1)
        ELSE IF fault = 2 THEN Outcome(store, Result("permissions_error"), c2)
        ELSE Outcome(store, [kind |-> "permissions",
                             items |-> Permissions(PolicyBindings)], c2)


---------------------------------------------------------------------------
(* The server: one request at a time goes through wrapper, then (unless     *)
(* wrapper returned a string itself) through the tool function, and its     *)
(* result goes back to the caller.  The arguments of the tool function are  *)
(* those of the request; wrapper reads none of them but auth_info, so they  *)
(* are drawn where the tool function runs.                                  *)

NoRequest == [state |-> "none"]

NoCall == [tool |-> "none"]

\* no tool function in progress on another server
NotRunning == [state |-> "none"]

Init ==
    /\ AUTH_GATEWAY_URL \in BOOLEAN
    /\ storage_client = [b \in {} |-> EmptyMap]
    /\ pc = "idle"
    /\ request = NoRequest
    /\ last = NoCall
    /\ uploaded = {}
    /\ running = NotRunning

\* wrapper(*args, **kwargs), lines 61-98: resolves the identity of a request
Receive ==
    /\ pc = "idle"
    /\ \E args \in { << >> } \cup { << [headers |-> h] >> : h \in HeaderDicts },
          kwargs_auth_info \in { None } \cup SuppliedAuthInfos,
          request_error \in BOOLEAN :
          LET w == wrapper(AUTH_GATEWAY_URL, args, kwargs_auth_info, request_error)
          IN  request' = [args |-> args, kwargs_auth_info |-> kwargs_auth_info,
                          request_error |-> request_error,
                          returned |-> w.returned, auth_info |-> w.auth_info,
                          gateway_called |-> w.gateway_called]
    /\ pc' = "wrapped"
    /\ UNCHANGED <<AUTH_GATEWAY_URL, storage_client, last, uploaded, running>>

\* line 101: wrapper calls the tool function with the auth_info it resolved
Invoke ==
    /\ pc = "wrapped"
    /\ request.returned = None
    /\ last' = [tool |-> "called", auth_info |-> request.auth_info]
    /\ request' = NoRequest
    /\ pc' = "call"
    /\ UNCHANGED <<AUTH_GATEWAY_URL, storage_client, uploaded, running>>

\* the tool function ran: its outcome, with the store as it was before
Ran(tool, kwargs, out) ==
    /\ NumObjects(out.store) <= MaxObjects
    /\ storage_client' = out.store
    /\ last' = [tool |-> tool, auth_info |-> last.auth_info, kwargs |-> kwargs,
                result |-> out.result, calls |-> out.calls,
                before |-> storage_client]
    /\ pc' = "done"
    /\ UNCHANGED <<AUTH_GATEWAY_URL, request, uploaded, running>>

UploadFile ==
    /\ pc = "call"
    /\ \E bucket_name \in BucketNames, path \in Paths, content \in Contents,
          fault \in 0..2 :
          Ran("upload_file",
              [bucket_name |-> bucket_name, path |-> path, content |-> content],
              upload_file(storage_client, last.auth_info, bucket_name, path,
                          content, fault))

CreateBucketTool ==
    /\ pc = "call"
    /\ \E bucket_name \in BucketNames, fault \in 0..1 :
          Ran("create_bucket", [bucket_name |-> bucket_name],
              create_bucket(storage_client, last.auth_info, bucket_name, fault))

ReadGcsFile ==
    /\ pc = "call"
    /\ \E bucket_name \in BucketNames, path \in Paths, fault \in 0..3 :
          Ran("read_gcs_file", [bucket_name |-> bucket_name, path |-> path],
              read_gcs_file(storage_client, last.auth_info, bucket_name, path, fault))

ListGcsObjects ==
    /\ pc = "call"
    /\ \E bucket_name \in BucketNames, path \in Paths, fault \in 0..2 :
          Ran("list_gcs_objects", [bucket_name |-> bucket_name, path |-> path],
              list_gcs_objects(storage_client, last.auth_info, bucket_name, path,
                               fault))

DeleteGcsObject ==
    /\ pc = "call"
    /\ \E bucket_name \in BucketNames, path \in Paths, fault \in 0..(2 + MaxObjects) :
          Ran("delete_gcs_object", [bucket_name |-> bucket_name, path |-> path],
              delete_gcs_object(storage_client, last.auth_info, bucket_name, path,
                                fault))

MoveGcsObject ==
    /\ pc = "call"
    /\ \E source_bucket_name \in BucketNames, source_path \in Paths,
          dest_bucket_name \in BucketNames, dest_path \in Paths, fault \in 0..5 :
          Ran("move_gcs_object",
              [source_bucket_name |-> source_bucket_name, source_path |-> source_path,
               dest_bucket_name |-> dest_bucket_name, dest_path |-> dest_path],
              move_gcs_object(storage_client, last.auth_info, source_bucket_name,
                              source_path, dest_bucket_name, dest_path, fault))

DeleteBucketTool ==
    /\ pc = "call"
    /\ \E bucket_name \in BucketNames, force \in BOOLEAN, fault \in 0..2 :
          Ran("delete_bucket", [bucket_name |-> bucket_name, force |-> force],
              delete_bucket(storage_client, last.auth_info, bucket_name, force, fault))

GetBucketPermissions ==
    /\ pc = "call"
    /\ \E bucket_name \in BucketNames, fault \in 0..2 :
          Ran("get_bucket_permissions", [bucket_name |-> bucket_name],
              get_bucket_permissions(storage_client, last.auth_info, bucket_name,
                                     fault))

\* the string wrapper returned, or the tool function's result, goes back to the
\* caller and the request is over
Return ==
    /\ \/ pc = "wrapped" /\ request.returned # None
       \/ pc = "done"
    /\ pc' = "idle"
    /\ request' = NoRequest
    /\ last' = NoCall
    /\ UNCHANGED <<AUTH_GATEWAY_URL, storage_client, uploaded, running>>

Next ==
    \/ Receive
    \/ Invoke
    \/ UploadFile
    \/ CreateBucketTool
    \/ ReadGcsFile
    \/ ListGcsObjects
    \/ DeleteGcsObject
    \/ MoveGcsObject
    \/ DeleteBucketTool
    \/ GetBucketPermissions
    \/ Return

Spec == Init /\ [][Next]_vars


---------------------------------------------------------------------------
(* Vocabulary of the properties *)

ObjectTools ==
    { "upload_file", "read_gcs_file", "list_gcs_objects", "delete_gcs_object",
      "move_gcs_object" }

AdminTools == { "create_bucket", "delete_bucket", "get_bucket_permissions" }

\* a tool function has run and its outcome is in last
Done == pc = "done"

\* the caller paths of the request last served
CallerPaths ==
    IF last.tool = "move_gcs_object"
    THEN { last.kwargs.source_path, last.kwargs.dest_path }
    ELSE { last.kwargs.path }

\* the storage path the specification gives caller path p under identity id
toStorage(id, p) == IF id = None THEN p ELSE id.user_id \o <<"/">> \o p

\* the object names one storage call reads, writes or deletes; a listing reads
\* the objects it ranges over
NamesOfCall(c) ==
    IF c.op \in { "upload_from_string", "exists", "download_as_bytes", "delete" }
    THEN { c.name }
    ELSE IF c.op = "copy_blob" THEN { c.name, c.dest_name }
    ELSE IF c.op \in { "list_blobs", "list_blobs_delimiter" }
    THEN { n \in DOMAIN last.before[c.bucket] :
              Len(n) >= Len(c.name) /\ SubSeq(n, 1, Len(c.name)) = c.name }
    ELSE {}

\* the object names the storage calls of the last request touched
TouchedNames == UNION { NamesOfCall(last.calls[i]) : i \in 1..Len(last.calls) }

\* the objects of bucket b in store s, none if s has no such bucket
ObjectsIn(s, b) == IF b \in DOMAIN s THEN s[b] ELSE EmptyMap

\* the object names whose presence or content the last request changed
ChangedNames ==
    UNION { { n \in DOMAIN ObjectsIn(last.before, b) \cup DOMAIN ObjectsIn(storage_client, b) :
                \/ n \notin DOMAIN ObjectsIn(last.before, b)
                \/ n \notin DOMAIN ObjectsIn(storage_client, b)
                \/ ObjectsIn(last.before, b)[n] # ObjectsIn(storage_client, b)[n] } :
            b \in BucketNames }

\* the last request touched exactly one object name per caller path
SingleObjectRequest ==
    \/ last.tool \in { "upload_file", "read_gcs_file" }
    \/ /\ last.tool = "delete_gcs_object"
       /\ toStorage(last.auth_info, last.kwargs.path) # << >>
       /\ toStorage(last.auth_info, last.kwargs.path)
             [Len(toStorage(last.auth_info, last.kwargs.path))] # "/"
    \/ /\ last.tool = "move_gcs_object"
       /\ \/ last.kwargs.dest_path = << >>
          \/ last.kwargs.dest_path[Len(last.kwargs.dest_path)] # "/"

---------------------------------------------------------------------------
(* C1 *)

\* C1 as claimed: for the five object tools, every object name the tool function
\* reads, writes, copies to or deletes is user_id + "/" + caller path under an
\* identity and the caller path itself without one.
C1_EveryKeyIsThePrefixedCallerPath ==
    (Done /\ last.tool \in ObjectTools) =>
        \A n \in TouchedNames \cup ChangedNames :
            \E p \in CallerPaths : n = toStorage(last.auth_info, p)

\* C1, amended: every object name the tool function reads, writes, copies to or
\* deletes begins with user_id + "/" + a caller path of the request (with no
\* identity: with the caller path), and is exactly that for upload_file,
\* read_gcs_file, a delete_gcs_object whose storage path does not end in "/" and a
\* move_gcs_object whose dest_path does not end in "/"; so a request with
\* identity u touches no object outside u's prefix.
C1_KeysStayInSandbox ==
    (Done /\ last.tool \in ObjectTools) =>
        \A n \in TouchedNames \cup ChangedNames :
            /\ \E p \in CallerPaths :
                  /\ Len(n) >= Len(toStorage(last.auth_info, p))
                  /\ SubSeq(n, 1, Len(toStorage(last.auth_info, p)))
                        = toStorage(last.auth_info, p)
                  /\ SingleObjectRequest => n = toStorage(last.auth_info, p)
            /\ last.auth_info # None =>
                  /\ Len(n) > Len(last.auth_info.user_id)
                  /\ SubSeq(n, 1, Len(last.auth_info.user_id) + 1)
                        = last.auth_info.user_id \o <<"/">>

\* a move under an identity into a directory: the object copied to is the
\* prefixed dest_path followed by the source's base name
C1_Witness ==
    /\ Done
    /\ last.tool = "move_gcs_object"
    /\ last.auth_info # None
    /\ last.result.kind = "moved"
    /\ last.kwargs.dest_path = Dir
    /\ last.kwargs.source_path = <<"f">>
    /\ toStorage(last.auth_info, Dir) \o <<"f">> \in ChangedNames
    /\ toStorage(last.auth_info, Dir) \notin TouchedNames


---------------------------------------------------------------------------
(* Vocabulary of the authentication properties *)

\* wrapper has run for the request and its outcome is in request
Wrapped == pc = "wrapped"

\* the request came with a request object (wrapper has a positional argument)
HasRequest == request.args # << >>

HasAuthHeader == "Authorization" \in DOMAIN request.args[1].headers

HeaderValue == request.args[1].headers["Authorization"]

\* the text is of the form 'Bearer <token>'
BearerForm(h) == Len(h) >= 7 /\ SubSeq(h, 1, 7) = <<"B", "e", "a", "r", "e", "r", " ">>

\* the token of a header of that form
TokenOf(h) == SubSeq(h, 8, Len(h))

\* the tool function is not invoked for the request and no step changes the store
HandlerNotInvoked ==
    /\ ~ENABLED Invoke
    /\ ~ENABLED (Next /\ storage_client' # storage_client)

\* the tool function is invoked, with identity id and no other
HandlerInvokedWith(id) ==
    /\ ENABLED (Invoke /\ last'.auth_info = id)
    /\ ~ENABLED (Invoke /\ last'.auth_info # id)

---------------------------------------------------------------------------
(* C2 *)

\* C2: with a gateway configured and no auth_info passed, a request whose
\* Authorization header is absent or not of the form 'Bearer <token>' gets the
\* invalid-header result, the tool function is not invoked and the store is
\* unchanged.
C2_BadHeaderRejected ==
    (/\ Wrapped
     /\ AUTH_GATEWAY_URL
     /\ request.kwargs_auth_info = None
     /\ HasRequest
     /\ ~HasAuthHeader \/ ~BearerForm(HeaderValue)) =>
        /\ request.returned = [kind |-> "invalid_header"]
        /\ HandlerNotInvoked

---------------------------------------------------------------------------
(* C3 *)

\* C3: with a gateway configured, no auth_info passed and a header of the form
\* 'Bearer <token>': a 200 response makes the tool function run with exactly the
\* {user_id, role} of the response body; any other response gives the
\* authentication-failed result with the gateway's reason, and a failure to reach
\* the gateway the gateway-unreachable result, in both cases without invoking the
\* tool function or changing the store.
C3_GatewayResponseMapped ==
    (/\ Wrapped
     /\ AUTH_GATEWAY_URL
     /\ request.kwargs_auth_info = None
     /\ HasRequest
     /\ HasAuthHeader
     /\ BearerForm(HeaderValue)) =>
        LET response == MockResponse(TokenOf(HeaderValue))
        IN  IF request.request_error
            THEN /\ request.returned = [kind |-> "gateway_error"]
                 /\ HandlerNotInvoked
            ELSE IF response.status_code = 200
            THEN /\ request.returned = None
                 /\ HandlerInvokedWith([user_id |-> response.json.user_id,
                                        role |-> response.json.role])
            ELSE /\ request.returned = [kind |-> "authentication_failed",
                                        reason |-> response.json.error]
                 /\ HandlerNotInvoked

\* a token the gateway does not know: authentication failed, with its reason
C3_Witness ==
    /\ Wrapped
    /\ AUTH_GATEWAY_URL
    /\ request.kwargs_auth_info = None
    /\ HasRequest
    /\ HasAuthHeader
    /\ HeaderValue = Bearer \o <<"x">>
    /\ ~request.request_error
    /\ request.returned = [kind |-> "authentication_failed", reason |-> "Invalid token"]

---------------------------------------------------------------------------
(* C4 *)

\* with no gateway configured and no auth_info passed, wrapper invokes the tool
\* function with no identity, whatever the Authorization header is
C4_AnonymousInvoked ==
    (Wrapped /\ ~AUTH_GATEWAY_URL /\ request.kwargs_auth_info = None /\ HasRequest) =>
        /\ request.returned = None
        /\ ~request.gateway_called
        /\ HandlerInvokedWith(None)

\* the tool function made a storage call, and every object name it handed to the
\* store begins with a caller path as the caller gave it
Unsandboxed ==
    /\ last.calls # << >>
    /\ \A n \in TouchedNames :
          \E p \in CallerPaths : Len(n) >= Len(p) /\ SubSeq(n, 1, Len(p)) = p

\* C4 as claimed: with no gateway configured and no identity supplied, every
\* operation proceeds to its storage call with no identity and no sandbox prefix;
\* create_bucket, delete_bucket and get_bucket_permissions are not refused for
\* lack of a role.
C4_AnonymousModeSkipsRoleChecks ==
    /\ C4_AnonymousInvoked
    /\ (Done /\ ~AUTH_GATEWAY_URL /\ last.auth_info = None) =>
          /\ last.result # [kind |-> "permission_denied"]
          /\ last.calls # << >>
          /\ last.tool \in ObjectTools => Unsandboxed

\* C4, amended: with no gateway configured and no identity supplied, wrapper
\* invokes every tool function with no identity, whatever the Authorization
\* header is; the five object tools then proceed to their storage calls with the
\* caller's paths unprefixed, while create_bucket, delete_bucket and
\* get_bucket_permissions return the permission-denied result, make no storage
\* call and leave the store unchanged.
C4_AnonymousModeKeepsRoleChecks ==
    /\ C4_AnonymousInvoked
    /\ (Done /\ ~AUTH_GATEWAY_URL /\ last.auth_info = None) =>
          /\ last.tool \in ObjectTools => Unsandboxed
          /\ last.tool \in AdminTools =>
                /\ last.result = [kind |-> "permission_denied"]
                /\ last.calls = << >>
                /\ storage_client = last.before

\* create_bucket in anonymous mode is refused
C4_Witness ==
    /\ Done
    /\ ~AUTH_GATEWAY_URL
    /\ last.auth_info = None
    /\ last.tool = "create_bucket"
    /\ last.result = [kind |-> "permission_denied"]


---------------------------------------------------------------------------
(* C5 *)

\* the bucket the last request named
TheBucket == last.kwargs.bucket_name

HasRole(role) == last.auth_info # None /\ last.auth_info.role = role

HasIdentityWithoutRole(role) == last.auth_info # None /\ last.auth_info.role # role

\* refused: the permission-denied result, no storage call, the store as it was
Refused ==
    /\ last.result = [kind |-> "permission_denied"]
    /\ last.calls = << >>
    /\ storage_client = last.before

\* the store after the request is the store before it with bucket b added, empty
BucketAdded(b) ==
    /\ b \notin DOMAIN last.before
    /\ DOMAIN storage_client = DOMAIN last.before \cup {b}
    /\ DOMAIN storage_client[b] = {}
    /\ \A o \in DOMAIN last.before : storage_client[o] = last.before[o]

\* the store after the request is the store before it without bucket b
BucketRemoved(b) ==
    /\ b \in DOMAIN last.before
    /\ DOMAIN storage_client = DOMAIN last.before \ {b}
    /\ \A o \in DOMAIN storage_client : storage_client[o] = last.before[o]

---------------------------------------------------------------------------
(* C6 *)

\* the tool function went on to the store: it made a storage call and did not
\* return the permission-denied result
Proceeded ==
    /\ last.calls # << >>
    /\ last.result # [kind |-> "permission_denied"]

\* C6 as claimed: only create_bucket and delete_bucket check the role; every
\* other tool proceeds to its storage call for any identity, whatever its role.
C6_OnlyBucketToolsCheckRole ==
    (Done /\ last.auth_info # None
          /\ last.tool \notin { "create_bucket", "delete_bucket" }) => Proceeded

\* C6, amended: create_bucket, delete_bucket and get_bucket_permissions check the
\* role (refused exactly when it is not agent-admin); each of the other five
\* tools proceeds to its storage call for any identity, whatever its role.
C6_ThreeToolsCheckRole ==
    (Done /\ last.auth_info # None) =>
        /\ last.tool \in ObjectTools => Proceeded
        /\ last.tool \in AdminTools =>
              IF last.auth_info.role = "agent-admin" THEN Proceeded ELSE Refused

\* get_bucket_permissions under the role agent is refused
C6_Witness ==
    /\ Done
    /\ last.tool = "get_bucket_permissions"
    /\ HasRole("agent")
    /\ Refused

---------------------------------------------------------------------------
(* C7 *)

\* C7: when the caller passes auth_info, the tool function runs with exactly that
\* identity; no gateway call is made, and neither the Authorization header nor
\* the gateway configuration has an effect.
C7_SuppliedIdentityUsed ==
    (Wrapped /\ request.kwargs_auth_info # None) =>
        /\ request.returned = None
        /\ ~request.gateway_called
        /\ HandlerInvokedWith(request.kwargs_auth_info)

\* auth_info of user-456-basic passed along with the administrator's token, with
\* a gateway configured
C7_Witness ==
    /\ Wrapped
    /\ AUTH_GATEWAY_URL
    /\ request.kwargs_auth_info = [user_id |-> UserBasic, role |-> "agent"]
    /\ HasRequest
    /\ HasAuthHeader
    /\ HeaderValue = Bearer \o TEST_TOKEN_ADMIN
    /\ HandlerInvokedWith([user_id |-> UserBasic, role |-> "agent"])


---------------------------------------------------------------------------
(* C8 *)

\* C8: stripping the sandbox prefix, as list_gcs_objects does, from the storage
\* path the tool functions build for caller path p gives back p, for every
\* identity and for none.
C8_StripUndoesPrefix ==
    (Done /\ last.tool \in ObjectTools) =>
        \A p \in CallerPaths :
            RemovePrefix(final_path(last.auth_info, p), strip_prefix(last.auth_info)) = p

\* a caller path that itself begins with the caller's sandbox prefix
C8_Witness ==
    /\ Done
    /\ last.tool = "list_gcs_objects"
    /\ last.auth_info # None
    /\ last.auth_info.user_id = UserBasic
    /\ last.kwargs.path = Dir \o <<"f">>
    /\ last.result.kind = "json_array"
    /\ final_path(last.auth_info, last.kwargs.path) = Dir \o Dir \o <<"f">>

---------------------------------------------------------------------------
(* C9 *)

\* the listing prefix of the specification: the storage path of the caller path,
\* closed by a "/" if it is not empty and does not end with one
ListingPrefix(id, p) ==
    LET s == toStorage(id, p)
    IN  IF s # << >> /\ s[Len(s)] # "/" THEN s \o <<"/">> ELSE s

\* s continues text pre
Under(s, pre) == Len(s) >= Len(pre) /\ \A i \in 1..Len(pre) : s[i] = pre[i]

\* the one-level entries of a set of object names under prefix pre: the names
\* with no "/" beyond pre, but for pre itself, and the subdirectory prefixes, up
\* to the first "/" beyond pre
OneLevel(names, pre) ==
    { n \in names : /\ Under(n, pre)
                    /\ n # pre
                    /\ \A i \in (Len(pre) + 1)..Len(n) : n[i] # "/" }
    \cup
    UNION { { SubSeq(n, 1, j) :
                j \in { k \in (Len(pre) + 1)..Len(n) :
                          /\ n[k] = "/"
                          /\ \A i \in (Len(pre) + 1)..(k - 1) : n[i] # "/" } } :
            n \in { m \in names : Under(m, pre) } }

\* text s without its first k characters
Drop(s, k) == [i \in 1..(Len(s) - k) |-> s[i + k]]

\* a listing under an identity, on a bucket that exists, came back as an array
ListedAs(u) ==
    /\ Done
    /\ last.tool = "list_gcs_objects"
    /\ last.auth_info # None
    /\ last.auth_info.user_id = u
    /\ TheBucket \in DOMAIN last.before
    /\ last.result.kind = "json_array"

\* the entries are exactly the one-level entries under the sandboxed prefix, each
\* without its leading user_id + "/"
ExactListing(u) ==
    last.result.items =
        { Drop(e, Len(u) + 1) :
            e \in OneLevel(DOMAIN last.before[TheBucket],
                           ListingPrefix(last.auth_info, last.kwargs.path)) }

\* every entry stands for an object of u's namespace: u + "/" + entry begins the
\* name of an object of the bucket
FromOwnNamespace(u) ==
    \A e \in last.result.items :
        \E n \in DOMAIN last.before[TheBucket] : Under(n, u \o <<"/">> \o e)

\* C9 as claimed: the listing of identity u is exactly the one-level entries
\* under the sandboxed prefix with the leading user_id + "/" removed; no object
\* outside u's namespace contributes an entry and no entry still carries u's
\* sandbox prefix.
C9_NoEntryCarriesPrefix ==
    \A u \in { UserAdmin, UserBasic } :
        ListedAs(u) =>
            /\ ExactListing(u)
            /\ FromOwnNamespace(u)
            /\ \A e \in last.result.items : ~Under(e, u \o <<"/">>)

\* C9, amended: the listing of identity u is exactly the one-level entries under
\* the sandboxed prefix, each with one leading user_id + "/" removed, and no
\* object outside u's namespace contributes an entry; an entry begins with
\* user_id + "/" only when u keeps an object under a directory of that name
\* inside its sandbox.
C9_ListingOfOwnNamespace ==
    \A u \in { UserAdmin, UserBasic } :
        ListedAs(u) =>
            /\ ExactListing(u)
            /\ FromOwnNamespace(u)
            /\ \A e \in last.result.items :
                  Under(e, u \o <<"/">>) =>
                      \E n \in DOMAIN last.before[TheBucket] :
                          Under(n, u \o <<"/">> \o u \o <<"/">>)

\* user-456-basic lists its root, where it keeps a directory named like itself
C9_Witness ==
    /\ ListedAs(UserBasic)
    /\ last.kwargs.path = << >>
    /\ Dir \in last.result.items
    /\ Cardinality(last.result.items) = 2

---------------------------------------------------------------------------
(* C10 *)

\* C10 as claimed: list_gcs_objects on a bucket that is empty or does not exist
\* returns a JSON object with an error field, never a JSON array.
C10_EmptyBucketIsAnError ==
    (/\ Done
     /\ last.tool = "list_gcs_objects"
     /\ TheBucket \in DOMAIN last.before => DOMAIN last.before[TheBucket] = {}) =>
        /\ last.result.kind = "json_object"
        /\ "error" \in last.result.keys

\* C10, amended: list_gcs_objects on a bucket that does not exist returns a JSON
\* object with an error field, never a JSON array; on a bucket that exists and
\* is empty it returns the empty JSON array (unless a storage call fails: the
\* error object when get_bucket fails, an exception when the listing fails).
C10_MissingBucketIsAnError ==
    (Done /\ last.tool = "list_gcs_objects") =>
        /\ TheBucket \notin DOMAIN last.before =>
              /\ last.result.kind = "json_object"
              /\ "error" \in last.result.keys
        /\ (TheBucket \in DOMAIN last.before /\ DOMAIN last.before[TheBucket] = {}) =>
              \/ last.result = [kind |-> "json_array", items |-> {}]
              \/ /\ last.result.kind = "json_object"
                 /\ "error" \in last.result.keys
                 /\ Len(last.calls) = 1
              \/ /\ last.result.kind = "raise"
                 /\ Len(last.calls) = 2

\* the listing of a bucket that exists and is empty
C10_Witness ==
    /\ Done
    /\ last.tool = "list_gcs_objects"
    /\ TheBucket \in DOMAIN last.before
    /\ DOMAIN last.before[TheBucket] = {}
    /\ last.result = [kind |-> "json_array", items |-> {}]

---------------------------------------------------------------------------
(* Vocabulary of the move and delete properties *)

\* text p ends with the separator
EndsInSlash(p) == p # << >> /\ p[Len(p)] = "/"

\* the part of text p after its last "/", all of p if it has none
AfterLastSlash(p) ==
    LET slashes == { i \in 1..Len(p) : p[i] = "/" }
        k == IF slashes = {} THEN 0
             ELSE CHOOSE i \in slashes : \A j \in slashes : j <= i
    IN  [i \in 1..(Len(p) - k) |-> p[i + k]]

\* the source object of the move last served: bucket and name
MoveSource ==
    [bucket |-> last.kwargs.source_bucket_name,
     name |-> toStorage(last.auth_info, last.kwargs.source_path)]

\* its final destination: the sandboxed dest_path, followed by the base name of
\* the source path when dest_path ends with "/"
MoveDestination ==
    [bucket |-> last.kwargs.dest_bucket_name,
     name |-> IF EndsInSlash(last.kwargs.dest_path)
              THEN toStorage(last.auth_info, last.kwargs.dest_path)
                       \o AfterLastSlash(last.kwargs.source_path)
              ELSE toStorage(last.auth_info, last.kwargs.dest_path)]

\* store s holds an object at o (bucket and name)
Holds(s, o) == o.name \in DOMAIN ObjectsIn(s, o.bucket)

\* the last request left the buckets, and every object but those at the places
\* in except, as they were
UnchangedBut(except) ==
    /\ DOMAIN storage_client = DOMAIN last.before
    /\ \A b \in DOMAIN last.before :
          \A n \in DOMAIN last.before[b] \cup DOMAIN storage_client[b] :
              [bucket |-> b, name |-> n] \notin except =>
                  /\ n \in DOMAIN last.before[b]
                  /\ n \in DOMAIN storage_client[b]
                  /\ storage_client[b][n] = last.before[b][n]

\* the objects the last request removed from the store
Removed ==
    { o \in [bucket : DOMAIN last.before,
             name : UNION { DOMAIN last.before[b] : b \in DOMAIN last.before }] :
        Holds(last.before, o) /\ ~Holds(storage_client, o) }

\* the last request made a storage call op
Called(op) == \E i \in 1..Len(last.calls) : last.calls[i].op = op

---------------------------------------------------------------------------
(* C11 *)

\* C11 as claimed: after move_gcs_object returns its success confirmation, an
\* object holding the content the source held exists at the final destination,
\* no object exists at the source (when the source is not the final
\* destination), and the objects at all other places are unchanged.
C11_MoveDelivers ==
    (Done /\ last.tool = "move_gcs_object" /\ last.result.kind = "moved") =>
        /\ Holds(last.before, MoveSource)
        /\ Holds(storage_client, MoveDestination)
        /\ storage_client[MoveDestination.bucket][MoveDestination.name]
              = last.before[MoveSource.bucket][MoveSource.name]
        /\ MoveSource # MoveDestination => ~Holds(storage_client, MoveSource)
        /\ UnchangedBut({ MoveSource, MoveDestination })

---------------------------------------------------------------------------
(* C12 *)

\* C12: the copy of move_gcs_object goes from the sandboxed source path to the
\* sandboxed dest_path followed by the base name of the source path when
\* dest_path ends with "/", and to exactly the sandboxed dest_path otherwise;
\* under an identity that is inside the caller's sandbox; and once the copy has
\* succeeded the destination holds what the source held (until the delete of
\* the source, when source and destination are the same object).
C12_DestinationOfTheCopy ==
    (Done /\ last.tool = "move_gcs_object") =>
        /\ \A i \in 1..Len(last.calls) :
              last.calls[i].op = "copy_blob" =>
                  /\ last.calls[i].bucket = MoveSource.bucket
                  /\ last.calls[i].name = MoveSource.name
                  /\ last.calls[i].dest_bucket = MoveDestination.bucket
                  /\ last.calls[i].dest_name = MoveDestination.name
                  /\ last.auth_info # None =>
                        Under(last.calls[i].dest_name,
                              last.auth_info.user_id \o <<"/">>)
        /\ (Called("delete") /\ ~(last.result.kind = "moved"
                                  /\ MoveSource = MoveDestination)) =>
              /\ Holds(storage_client, MoveDestination)
              /\ storage_client[MoveDestination.bucket][MoveDestination.name]
                    = last.before[MoveSource.bucket][MoveSource.name]
        /\ last.result.kind = "moved" => Called("copy_blob")

\* a move under an identity from a path with a directory part into a directory
\* of another bucket: only the base name follows the destination path
C12_Witness ==
    /\ Done
    /\ last.tool = "move_gcs_object"
    /\ last.result.kind = "moved"
    /\ last.auth_info # None
    /\ last.kwargs.source_path = Dir \o <<"f">>
    /\ last.kwargs.dest_path = Dir
    /\ last.kwargs.source_bucket_name # last.kwargs.dest_bucket_name
    /\ Holds(storage_client,
             [bucket |-> last.kwargs.dest_bucket_name,
              name |-> last.auth_info.user_id \o <<"/">> \o Dir \o <<"f">>])

---------------------------------------------------------------------------
(* C13 *)

\* C13: move_gcs_object is copy, then delete of the source, with no rollback:
\* when the copy succeeds and the delete of the source fails, it returns an error
\* string and the object is at both the source and the final destination; when
\* the copy itself fails, it returns an error string and the store is unchanged.
C13_NoRollback ==
    (Done /\ last.tool = "move_gcs_object") =>
        /\ (Called("delete") /\ last.result.kind # "moved") =>
              /\ last.result.kind = "error"
              /\ Holds(storage_client, MoveSource)
              /\ Holds(storage_client, MoveDestination)
              /\ storage_client[MoveSource.bucket][MoveSource.name]
                    = last.before[MoveSource.bucket][MoveSource.name]
              /\ storage_client[MoveDestination.bucket][MoveDestination.name]
                    = last.before[MoveSource.bucket][MoveSource.name]
              /\ UnchangedBut({ MoveDestination })
        /\ (Called("copy_blob") /\ ~Called("delete")) =>
              /\ last.result.kind = "error"
              /\ storage_client = last.before

\* the delete of the source failed after the copy: the object is at both places
C13_Witness ==
    /\ Done
    /\ last.tool = "move_gcs_object"
    /\ Called("delete")
    /\ last.result.kind = "error"
    /\ MoveSource # MoveDestination
    /\ ~Holds(last.before, MoveDestination)
    /\ Holds(storage_client, MoveSource)
    /\ Holds(storage_client, MoveDestination)

---------------------------------------------------------------------------
(* C14 *)

\* the objects of the bucket of the last request whose name begins with the
\* sandboxed path, in store s
UnderThePath(s) ==
    { n \in DOMAIN ObjectsIn(s, TheBucket) :
        Under(n, toStorage(last.auth_info, last.kwargs.path)) }

\* C14: delete_gcs_object with a path ending with "/": when it returns the
\* directory-deleted confirmation, no object whose name begins with the sandboxed
\* prefix remains in the bucket and every other object is unchanged; when the
\* bucket holds no object under the prefix it returns the already-empty message
\* (an error string if a storage call fails) and the store is unchanged, and it
\* returns the already-empty message in no other case.
C14_DirectoryDelete ==
    (Done /\ last.tool = "delete_gcs_object" /\ EndsInSlash(last.kwargs.path)) =>
        /\ last.result.kind = "directory_deleted" =>
              /\ UnderThePath(last.before) # {}
              /\ UnderThePath(storage_client) = {}
              /\ UnchangedBut({ [bucket |-> TheBucket, name |-> n] :
                                   n \in UnderThePath(last.before) })
        /\ (TheBucket \in DOMAIN last.before /\ UnderThePath(last.before) = {}) =>
              /\ last.result.kind \in { "directory_empty", "error" }
              /\ last.result.kind = "error" => Len(last.calls) <= 2
              /\ storage_client = last.before
        /\ last.result.kind = "directory_empty" =>
              /\ TheBucket \in DOMAIN last.before
              /\ UnderThePath(last.before) = {}

\* a directory delete that removed the object under the prefix and kept the
\* other object of the bucket
C14_Witness ==
    /\ Done
    /\ last.tool = "delete_gcs_object"
    /\ EndsInSlash(last.kwargs.path)
    /\ last.result.kind = "directory_deleted"
    /\ UnderThePath(last.before) # {}
    /\ DOMAIN last.before[TheBucket] \ UnderThePath(last.before) # {}
    /\ DOMAIN storage_client[TheBucket]
          = DOMAIN last.before[TheBucket] \ UnderThePath(last.before)

---------------------------------------------------------------------------
(* C15 *)

\* C15 as claimed: read_gcs_file is the only tool that raises: it raises for a
\* missing object, and every other tool returns a string and never raises,
\* whichever of its storage calls fails.
C15_OnlyReadRaises ==
    Done =>
        /\ last.tool # "read_gcs_file" => last.result.kind # "raise"
        /\ (/\ last.tool = "read_gcs_file"
            /\ TheBucket \in DOMAIN last.before
            /\ toStorage(last.auth_info, last.kwargs.path)
                  \notin DOMAIN last.before[TheBucket]) =>
              last.result.kind = "raise"

---------------------------------------------------------------------------
(* C17 *)

\* C17 as claimed: delete_gcs_object makes a prefix delete only when the path
\* the caller gave ends with "/"; for every other caller path, the empty one
\* included, and every identity or none, one call removes at most one object
\* and returns what the variant without authentication returns for such a path:
\* never a directory result.
C17_PrefixDeleteOnlyForDirectoryPaths ==
    (Done /\ last.tool = "delete_gcs_object" /\ ~EndsInSlash(last.kwargs.path)) =>
        /\ ~Called("list_blobs")
        /\ Cardinality(Removed) <= 1
        /\ last.result.kind \notin { "directory_empty", "directory_deleted" }

---------------------------------------------------------------------------
(* The round trip specification: the requests as the tool functions serve   *)
(* them, one after the other, with the history of the uploads.  wrapper     *)
(* hands a tool function no identity or the identity of the request (C3,    *)
(* C7), so the identity is drawn where the tool function runs.  A storage   *)
(* call that fails and leaves the store as it was leaves the history as it  *)
(* was: the failures drawn here are those of a read, which decide what the  *)
(* read returns, and those that leave the store changed, which are the      *)
(* delete of the source of a move and a delete after the first of a         *)
(* directory delete.                                                        *)

Identities == { None } \cup SuppliedAuthInfos

\* the object an upload wrote: bucket and name
KeyOf(r) == [bucket |-> r.bucket, name |-> final_path(r.auth_info, r.path)]

\* the uploads whose object is in store after as it was in store before
StillAsUploaded(before, after) ==
    { r \in uploaded :
        /\ KeyOf(r).bucket \in DOMAIN after
        /\ KeyOf(r).name \in DOMAIN after[KeyOf(r).bucket]
        /\ after[KeyOf(r).bucket][KeyOf(r).name]
              = before[KeyOf(r).bucket][KeyOf(r).name] }

\* a tool function ran for a request with identity auth_info; an upload that
\* returned its confirmation enters the history in place of what was known of
\* the object it wrote
Served(tool, auth_info, kwargs, out) ==
    /\ pc = "idle"
    /\ NumObjects(out.store) <= MaxObjects
    /\ storage_client' = out.store
    /\ uploaded' =
          IF out.result.kind = "uploaded"
          THEN LET r == [auth_info |-> auth_info, bucket |-> kwargs.bucket_name,
                         path |-> kwargs.path, content |-> kwargs.content]
               IN  { o \in StillAsUploaded(storage_client, out.store) :
                       KeyOf(o) # KeyOf(r) } \cup { r }
          ELSE StillAsUploaded(storage_client, out.store)
    /\ last' = IF tool = "read_gcs_file"
               THEN [tool |-> tool, auth_info |-> auth_info, kwargs |-> kwargs,
                     result |-> out.result]
               ELSE [tool |-> tool, auth_info |-> auth_info]
    /\ pc' = "done"
    /\ UNCHANGED <<AUTH_GATEWAY_URL, request, running>>

ServeUploadFile ==
    \E auth_info \in Identities, bucket_name \in BucketNames, path \in Paths,
       content \in Contents, fault \in {0} :
        Served("upload_file", auth_info,
               [bucket_name |-> bucket_name, path |-> path, content |-> content],
               upload_file(storage_client, auth_info, bucket_name, path, content,
                           fault))

ServeCreateBucket ==
    \E auth_info \in Identities, bucket_name \in BucketNames, fault \in {0} :
        Served("create_bucket", auth_info, [bucket_name |-> bucket_name],
               create_bucket(storage_client, auth_info, bucket_name, fault))

ServeReadGcsFile ==
    \E auth_info \in Identities, bucket_name \in BucketNames, path \in Paths,
       fault \in 0..3 :
        Served("read_gcs_file", auth_info,
               [bucket_name |-> bucket_name, path |-> path],
               read_gcs_file(storage_client, auth_info, bucket_name, path, fault))

ServeListGcsObjects ==
    \E auth_info \in Identities, bucket_name \in BucketNames, path \in Paths,
       fault \in {0} :
        Served("list_gcs_objects", auth_info,
               [bucket_name |-> bucket_name, path |-> path],
               list_gcs_objects(storage_client, auth_info, bucket_name, path, fault))

ServeDeleteGcsObject ==
    \E auth_info \in Identities, bucket_name \in BucketNames, path \in Paths,
       fault \in {0} \cup 4..(2 + MaxObjects) :
        Served("delete_gcs_object", auth_info,
               [bucket_name |-> bucket_name, path |-> path],
               delete_gcs_object(storage_client, auth_info, bucket_name, path, fault))

ServeMoveGcsObject ==
    \E auth_info \in Identities, source_bucket_name \in BucketNames,
       source_path \in Paths, dest_bucket_name \in BucketNames,
       dest_path \in Paths, fault \in {0, 5} :
        Served("move_gcs_object", auth_info,
               [source_bucket_name |-> source_bucket_name,
                source_path |-> source_path,
                dest_bucket_name |-> dest_bucket_name, dest_path |-> dest_path],
               move_gcs_object(storage_client, auth_info, source_bucket_name,
                               source_path, dest_bucket_name, dest_path, fault))

ServeDeleteBucket ==
    \E auth_info \in Identities, bucket_name \in BucketNames, force \in BOOLEAN,
       fault \in {0} :
        Served("delete_bucket", auth_info,
               [bucket_name |-> bucket_name, force |-> force],
               delete_bucket(storage_client, auth_info, bucket_name, force, fault))

ServeGetBucketPermissions ==
    \E auth_info \in Identities, bucket_name \in BucketNames, fault \in {0} :
        Served("get_bucket_permissions", auth_info, [bucket_name |-> bucket_name],
               get_bucket_permissions(storage_client, auth_info, bucket_name, fault))

RoundTripInit ==
    /\ AUTH_GATEWAY_URL = FALSE
    /\ storage_client = [b \in {} |-> EmptyMap]
    /\ pc = "idle"
    /\ request = NoRequest
    /\ last = NoCall
    /\ uploaded = {}
    /\ running = NotRunning

RoundTripNext ==
    \/ ServeUploadFile
    \/ ServeCreateBucket
    \/ ServeReadGcsFile
    \/ ServeListGcsObjects
    \/ ServeDeleteGcsObject
    \/ ServeMoveGcsObject
    \/ ServeDeleteBucket
    \/ ServeGetBucketPermissions
    \/ Return

RoundTrip == RoundTripInit /\ [][RoundTripNext]_vars

---------------------------------------------------------------------------
(* C16 *)

\* a read has been served
ReadDone == pc = "done" /\ last.tool = "read_gcs_file"

\* the uploads in the history made to the bucket and caller path of the read
UploadsOfThePath ==
    { r \in uploaded :
        r.bucket = last.kwargs.bucket_name /\ r.path = last.kwargs.path }

\* the read returned content, base64 text c
Returned(c) == last.result = [kind |-> "content", b64 |-> c]

\* the read failed on a storage call
ReadFailed == last.result = [kind |-> "raise", exc |-> "Exception"]

\* C16 as claimed: after upload_file(bucket, p, encoded X) by identity u returned
\* its confirmation, and while the object is as uploaded, read_gcs_file(bucket, p)
\* by u returns the encoding of exactly X (unless a storage call of the read
\* fails), and a read of p by a different identity does not return X.
C16_OthersNeverReadX ==
    ReadDone =>
        \A r \in UploadsOfThePath :
            /\ r.auth_info = last.auth_info => Returned(r.content) \/ ReadFailed
            /\ r.auth_info # last.auth_info => ~Returned(r.content)

\* C16, amended: after upload_file(bucket, p, encoded X) by identity u returned
\* its confirmation, the object at u's storage path of p holds X, and while no
\* later request has replaced or removed that object, read_gcs_file(bucket, p) by
\* u returns the encoding of exactly X (unless a storage call of the read fails);
\* a read of p by a different identity reads the object at that identity's own
\* storage path of p, another object: it returns the encoding of X only if that
\* object holds X as well.
C16_RoundTrip ==
    /\ \A r \in uploaded :
          /\ Holds(storage_client,
                   [bucket |-> r.bucket, name |-> toStorage(r.auth_info, r.path)])
          /\ b64encode(storage_client[r.bucket][toStorage(r.auth_info, r.path)])
                = r.content
    /\ ReadDone =>
          \A r \in UploadsOfThePath :
              /\ r.auth_info = last.auth_info => Returned(r.content) \/ ReadFailed
              /\ r.auth_info # last.auth_info =>
                    /\ toStorage(last.auth_info, r.path)
                          # toStorage(r.auth_info, r.path)
                    /\ Returned(r.content) =>
                          /\ Holds(storage_client,
                                   [bucket |-> r.bucket,
                                    name |-> toStorage(last.auth_info, r.path)])
                          /\ b64encode(storage_client[r.bucket]
                                           [toStorage(last.auth_info, r.path)])
                                = r.content

\* identity u reads back what it uploaded at p while another identity holds
\* other content at the same caller path
C16_Witness ==
    /\ ReadDone
    /\ last.auth_info # None
    /\ \E r \in UploadsOfThePath :
          /\ r.auth_info = last.auth_info
          /\ Returned(r.content)
    /\ \E o \in UploadsOfThePath :
          /\ o.auth_info # last.auth_info
          /\ ~Returned(o.content)

---------------------------------------------------------------------------
(* The concurrent specification: tool functions in progress at the same     *)
(* time on servers that share the object store (deploy.py puts the server   *)
(* on Cloud Run, which runs several instances), one storage call of one of  *)
(* them at a time.  Each takes its steps in the order of its source; what   *)
(* a storage call does it does to the store as it is at that moment.        *)

\* the tool functions in progress at the same time
MaxHandlers == 2

Handlers == 1..MaxHandlers

\* the stores the concurrent requests start from: bucket b1 with some of the
\* objects "f" and "user-456-basic/f", holding b"X"
ConcurrentStores ==
    { [b \in {"b1"} |-> [n \in names |-> <<88>>]] :
        names \in SUBSET { <<"f">>, Dir \o <<"f">> } }

\* the requests in progress: uploads, deletes and moves in bucket b1, without
\* identity or as user-456-basic
ConcurrentCalls ==
    LET ids == { None, AuthInfo(UserBasic, "agent") }
        valid == { c \in Contents : b64decode(c) # B64Error }
    IN  { [tool |-> "upload_file", auth_info |-> a,
           kwargs |-> [bucket_name |-> "b1", path |-> p, content |-> c]] :
             a \in ids, p \in Paths, c \in valid }
        \cup
        { [tool |-> "delete_gcs_object", auth_info |-> a,
           kwargs |-> [bucket_name |-> "b1", path |-> p]] :
             a \in ids, p \in Paths }
        \cup
        { [tool |-> "move_gcs_object", auth_info |-> a,
           kwargs |-> [source_bucket_name |-> "b1", source_path |-> s,
                       dest_bucket_name |-> "b1", dest_path |-> d]] :
             a \in ids, s \in Paths, d \in Paths }

\* a server that has not received its request yet
Waiting == [pc |-> "waiting"]

\* the tool function in progress on server h
Handler(h) == running.handlers[h]

\* running, with handler h at its storage call pc_ and its local blobs_to_delete
At(h, pc_, blobs) ==
    [running EXCEPT !.handlers[h].pc = pc_, !.handlers[h].blobs_to_delete = blobs]

\* running, with handler h returned
Returns(h, result) ==
    [running EXCEPT !.handlers[h].pc = "returned", !.handlers[h].result = result]

\* the bucket and the object name the storage calls of handler h are about
SourceBucket(h) ==
    IF Handler(h).tool = "move_gcs_object"
    THEN Handler(h).kwargs.source_bucket_name ELSE Handler(h).kwargs.bucket_name

SourceName(h) ==
    final_path(Handler(h).auth_info,
               IF Handler(h).tool = "move_gcs_object"
               THEN Handler(h).kwargs.source_path ELSE Handler(h).kwargs.path)

\* what `except NotFound` of the tool function of handler h returns
NotFoundResult(h) ==
    IF Handler(h).tool = "move_gcs_object" THEN Result("buckets_not_found")
    ELSE [kind |-> "bucket_not_found", bucket |-> Handler(h).kwargs.bucket_name]

\* what the concurrent handlers leave alone
Unshared == <<AUTH_GATEWAY_URL, pc, request, last, uploaded>>

\* a request reaches a server and its tool function is called
Begin(h) ==
    /\ Handler(h) = Waiting
    /\ \E call \in ConcurrentCalls :
          running' = [running EXCEPT !.handlers[h] =
                         [tool |-> call.tool, auth_info |-> call.auth_info,
                          kwargs |-> call.kwargs, pc |-> "get_bucket",
                          blobs_to_delete |-> << >>, result |-> None]]
    /\ UNCHANGED <<storage_client, Unshared>>

\* storage_client.get_bucket(bucket_name), of the source bucket for a move
GetBucket(h) ==
    /\ Handler(h).pc = "get_bucket"
    /\ running' =
          IF ~HasBucket(storage_client, SourceBucket(h))
          THEN Returns(h, NotFoundResult(h))
          ELSE IF Handler(h).tool = "upload_file"
          THEN At(h, "upload_from_string", << >>)
          ELSE IF Handler(h).tool = "delete_gcs_object" /\ EndsWith(SourceName(h), Slash)
          THEN At(h, "list_blobs", << >>)
          ELSE At(h, "exists", << >>)
    /\ UNCHANGED <<storage_client, Unshared>>

\* blob.upload_from_string(decoded_content)
UploadFromString(h) ==
    /\ Handler(h).pc = "upload_from_string"
    /\ LET k == Handler(h).kwargs
       IN  IF SourceName(h) = << >>
           THEN /\ running' = Returns(h, Result("error"))
                /\ UNCHANGED storage_client
           ELSE /\ storage_client' = PutObject(storage_client, k.bucket_name,
                                               SourceName(h), b64decode(k.content))
                /\ running' = Returns(h, [kind |-> "uploaded", path |-> k.path,
                                          bucket |-> k.bucket_name])
    /\ UNCHANGED Unshared

\* blob.exists(), of delete_gcs_object and of move_gcs_object
BlobExists(h) ==
    /\ Handler(h).pc = "exists"
    /\ LET k == Handler(h).kwargs
       IN  running' =
              IF SourceName(h) = << >> THEN Returns(h, Result("error"))
              ELSE IF Exists(storage_client, SourceBucket(h), SourceName(h))
              THEN At(h, IF Handler(h).tool = "move_gcs_object"
                         THEN "get_dest_bucket" ELSE "delete", << >>)
              ELSE IF Handler(h).tool = "move_gcs_object"
              THEN Returns(h, [kind |-> "source_not_found", path |-> k.source_path])
              ELSE Returns(h, [kind |-> "file_not_found", path |-> k.path,
                               bucket |-> k.bucket_name])
    /\ UNCHANGED <<storage_client, Unshared>>

\* storage_client.get_bucket(dest_bucket_name)
GetDestBucket(h) ==
    /\ Handler(h).pc = "get_dest_bucket"
    /\ running' =
          IF HasBucket(storage_client, Handler(h).kwargs.dest_bucket_name)
          THEN At(h, "copy_blob", << >>)
          ELSE Returns(h, NotFoundResult(h))
    /\ UNCHANGED <<storage_client, Unshared>>

\* source_bucket.copy_blob(source_blob, dest_bucket, final_dest_path): NotFound
\* if the source object is gone
CopyBlob(h) ==
    /\ Handler(h).pc = "copy_blob"
    /\ LET k == Handler(h).kwargs
           dest == final_dest_path(Handler(h).auth_info, k.source_path, k.dest_path)
       IN  IF ~Exists(storage_client, SourceBucket(h), SourceName(h))
           THEN /\ running' = Returns(h, NotFoundResult(h))
                /\ UNCHANGED storage_client
           ELSE IF dest = << >>
           THEN /\ running' = Returns(h, Result("error"))
                /\ UNCHANGED storage_client
           ELSE /\ storage_client' =
                      PutObject(storage_client, k.dest_bucket_name, dest,
                                storage_client[SourceBucket(h)][SourceName(h)])
                /\ running' = At(h, "delete", << >>)
    /\ UNCHANGED Unshared

\* blob.delete() of delete_gcs_object, source_blob.delete() of move_gcs_object:
\* NotFound if the object is gone
BlobDelete(h) ==
    /\ Handler(h).pc = "delete"
    /\ LET k == Handler(h).kwargs
       IN  IF ~Exists(storage_client, SourceBucket(h), SourceName(h))
           THEN /\ running' = Returns(h, NotFoundResult(h))
                /\ UNCHANGED storage_client
           ELSE /\ storage_client' =
                      DeleteObject(storage_client, SourceBucket(h), SourceName(h))
                /\ running' =
                      IF Handler(h).tool = "move_gcs_object"
                      THEN Returns(h, [kind |-> "moved", source_path |-> k.source_path,
                                       dest_path |-> k.dest_path])
                      ELSE Returns(h, [kind |-> "file_deleted", path |-> k.path])
    /\ UNCHANGED Unshared

\* blobs_to_delete = list(bucket.list_blobs(prefix=final_path))
ListBlobsToDelete(h) ==
    /\ Handler(h).pc = "list_blobs"
    /\ LET blobs == Sorted(Matching(storage_client, SourceBucket(h), SourceName(h)))
       IN  running' =
              IF blobs = << >>
              THEN Returns(h, [kind |-> "directory_empty",
                               path |-> Handler(h).kwargs.path])
              ELSE At(h, "delete_each", blobs)
    /\ UNCHANGED <<storage_client, Unshared>>

\* for blob in blobs_to_delete: blob.delete(), one turn of the loop: NotFound if
\* the object is gone
DeleteNextBlob(h) ==
    /\ Handler(h).pc = "delete_each"
    /\ LET blobs == Handler(h).blobs_to_delete
       IN  IF ~Exists(storage_client, SourceBucket(h), Head(blobs))
           THEN /\ running' = Returns(h, NotFoundResult(h))
                /\ UNCHANGED storage_client
           ELSE /\ storage_client' =
                      DeleteObject(storage_client, SourceBucket(h), Head(blobs))
                /\ running' =
                      IF Tail(blobs) = << >>
                      THEN Returns(h, [kind |-> "directory_deleted",
                                       path |-> Handler(h).kwargs.path])
                      ELSE At(h, "delete_each", Tail(blobs))
    /\ UNCHANGED Unshared

ConcurrentInit ==
    /\ AUTH_GATEWAY_URL = FALSE
    /\ storage_client \in ConcurrentStores
    /\ pc = "idle"
    /\ request = NoRequest
    /\ last = NoCall
    /\ uploaded = {}
    /\ running = [initial |-> storage_client, handlers |-> [h \in Handlers |-> Waiting]]

ConcurrentNext ==
    \E h \in Handlers :
        \/ Begin(h)
        \/ GetBucket(h)
        \/ UploadFromString(h)
        \/ BlobExists(h)
        \/ GetDestBucket(h)
        \/ CopyBlob(h)
        \/ BlobDelete(h)
        \/ ListBlobsToDelete(h)
        \/ DeleteNextBlob(h)

Concurrent == ConcurrentInit /\ [][ConcurrentNext]_vars

---------------------------------------------------------------------------
(* C18 *)

\* what the tool function of handler h does when it runs alone on store s
Alone(h, s) ==
    LET k == Handler(h).kwargs
    IN  CASE Handler(h).tool = "upload_file" ->
                upload_file(s, Handler(h).auth_info, k.bucket_name, k.path,
                            k.content, 0)
          [] Handler(h).tool = "delete_gcs_object" ->
                delete_gcs_object(s, Handler(h).auth_info, k.bucket_name, k.path, 0)
          [] Handler(h).tool = "move_gcs_object" ->
                move_gcs_object(s, Handler(h).auth_info, k.source_bucket_name,
                                k.source_path, k.dest_bucket_name, k.dest_path, 0)

\* the orders in which the handlers can run one after the other
Orders ==
    { o \in [Handlers -> Handlers] : \A h \in Handlers : \E i \in Handlers : o[i] = h }

\* the store after the first n handlers of order o ran alone, one after the
\* other, from the store the requests started from
RECURSIVE StoreAfter(_, _)
StoreAfter(o, n) ==
    IF n = 0 THEN running.initial
    ELSE Alone(o[n], StoreAfter(o, n - 1)).store

\* every handler has returned
AllReturned == \A h \in Handlers : Handler(h).pc = "returned"

\* the store and the results are those of the handlers run in order o
AsInOrder(o) ==
    /\ storage_client = StoreAfter(o, MaxHandlers)
    /\ \A n \in Handlers :
          Handler(o[n]).result = Alone(o[n], StoreAfter(o, n - 1)).result

\* C18 as claimed: whatever the interleaving of the storage calls of concurrent
\* tool functions, once they have returned the store and the results returned
\* are those of the same calls run one after the other, in some order.
C18_Serializable == AllReturned => \E o \in Orders : AsInOrder(o)

============================================================================
